---- MODULE Spec2Model ----
(***************************************************************************)
(* A model of the two tutorial programs of the repository:                 *)
(*                                                                         *)
(*   tutorials/tmva/TMVACrossEvaluation.C   genTree and the macro          *)
(*                                          TMVACrossEvaluation            *)
(*   tutorials/v7/simple.cxx                simple                         *)
(*                                                                         *)
(* Int_t and UInt_t are 32 bits wide in the source.  The model keeps the   *)
(* two's complement structure (a signed and an unsigned type of the same   *)
(* width, the unsigned one wrapping) at IntBits bits, the smallest width   *)
(* that holds the macro's 1000 events, so that the boundaries of the types *)
(* are states that are reached.  Double_t values are the integers they     *)
(* are equal to (simple's coordinates are scaled by 100).                  *)
(***************************************************************************)
EXTENDS Integers, Sequences, FiniteSets, TLC

VARIABLES
    \* ---- TMVACrossEvaluation.C --------------------------------------
    calls,        \* the arguments of the calls of genTree made, in order
    pc,           \* the statement of TMVACrossEvaluation about to run
    steps,        \* the statements of TMVACrossEvaluation completed, in order
    call,         \* which call of genTree is active: "none", "sig", "bkg"
    nPoints, offset, scale,      \* genTree's parameters
    rng, x, y, eventID, n, data, \* genTree's locals
    sigTree, bkgTree,
    outputFile,   \* TFile *outputFile
    dataloader,   \* TMVA::DataLoader *dataloader
    numFolds,     \* UInt_t numFolds
    castMode,     \* what the build makes of an out-of-range double -> int cast
    methods,      \* the methods booked in ce
    folds,        \* ce's folds: fold index -> set of events
    iMethod, iFold,              \* Evaluate's position
    evaluated,    \* the <<method, fold>> pairs trained and evaluated, in order
    results,      \* ce.GetResults()
    bdtg_result,
    batch,        \* gROOT->IsBatch() as read at line 221
    gui,          \* number of launches of TMVA::TMVAGui
    retval,
    \* ---- the split expression evaluated on its own ------------------
    probe,
    \* ---- simple.cxx -------------------------------------------------
    simplePc, hist, histFromVars, fitResult, file

macroVars == << calls, pc, steps, call, nPoints, offset, scale, rng, x, y, eventID,
                n, data, sigTree, bkgTree, outputFile, dataloader, numFolds,
                castMode, methods, folds, iMethod, iFold, evaluated, results,
                bdtg_result, batch, gui, retval >>
simpleVars == << simplePc, hist, histFromVars, fitResult, file >>
vars == << macroVars, probe, simpleVars >>

None == "none"

-----------------------------------------------------------------------------
(* Bounds of the model *)

IntBits == 11
MaxFolds == 3
FitRange == 3

-----------------------------------------------------------------------------
(* Integer types *)

UIntModulus == 2 ^ IntBits
IntMax == 2 ^ (IntBits - 1) - 1
IntMin == -IntMax - 1

\* A UInt_t read through a branch declared "/I": the same bits as an Int_t.
ToSigned(u) == IF u > IntMax THEN u - UIntModulus ELSE u

\* fabs on a double.
Fabs(d) == IF d < 0 THEN -d ELSE d

CastModes == {"indefinite", "saturate"}

\* int(d) for a double d with no fractional part.  Out of the range of int the
\* conversion is undefined: the build yields the "integer indefinite" value
\* (IntMin) or saturates.
IntCast(d, mode) ==
    IF d >= IntMin /\ d <= IntMax THEN d
    ELSE IF mode = "indefinite" THEN IntMin
    ELSE IF d > IntMax THEN IntMax ELSE IntMin

\* a % b on ints, b > 0: the quotient truncates toward zero, so the remainder
\* has the sign of a.
CRem(a, b) == IF a >= 0 THEN a % b ELSE -((-a) % b)

-----------------------------------------------------------------------------
(* The random number generator.  TRandom3 is not part of the two files: it is
   abstracted to a deterministic generator with a small state, which is all
   genTree relies on (the data are a function of seed, offset and scale, and
   no function of eventID). *)

RngModulus == 16

TRandom3(seed) == seed % RngModulus

RngNext(s) == (5 * s + 3) % RngModulus

\* rng.Gaus(mean, sigma) in generator state s, after the state has advanced.
Gaus(s, mean, sigma) == mean + sigma * ((s % 3) - 1)

-----------------------------------------------------------------------------
(* genTree, lines 77-103 *)

\* genTree(1000, 1.0, 1.0, 100) and genTree(1000, -1.0, 1.0, 101)
SigArgs == [nPoints |-> 1000, offset |-> 1, scale |-> 1, seed |-> 100]

BkgArgsShort == [nPoints |-> 999, offset |-> -1, scale |-> 1, seed |-> 101]

BkgArgs == [nPoints |-> 1000, offset |-> -1, scale |-> 1, seed |-> 101]

LoopCondInclusive(i, limit) == i <= limit

\* n < nPoints
LoopCond(i, limit) == i < limit

\* ++eventID on a UInt_t
Incr(u) == (u + 1) % UIntModulus

\* data->Fill(): the branches read the variables they are bound to; eventID is
\* a UInt_t read through the branch "eventID/I".
TreeFill(tree, vx, vy, vid) ==
    Append(tree, [x |-> vx, y |-> vy, eventID |-> ToSigned(vid)])

\* The call genTree(a.nPoints, a.offset, a.scale, a.seed) and lines 79-87.
GenTreeCall(a) ==
    /\ pc \in {"genSig", "genBkg"}
    /\ call = None
    /\ call' = (IF pc = "genSig" THEN "sig" ELSE "bkg")
    /\ calls' = Append(calls, a)
    /\ nPoints' = a.nPoints
    /\ offset' = a.offset
    /\ scale' = a.scale
    /\ rng' = TRandom3(a.seed)
    /\ x' = 0
    /\ y' = 0
    /\ eventID' = 0
    /\ data' = << >>
    /\ n' = 0
    /\ UNCHANGED << pc, steps, sigTree, bkgTree, outputFile, dataloader,
                    numFolds, castMode, methods, folds, iMethod, iFold,
                    evaluated, results, bdtg_result, batch, gui, retval >>
    /\ UNCHANGED << probe, simpleVars >>

\* The calls of lines 119 and 120.
GenTreeEnter == GenTreeCall(IF pc = "genSig" THEN SigArgs ELSE BkgArgs)

\* The loop body with the Fill before the increment.
GenTreeLoopFillFirst ==
    /\ call # None
    /\ LoopCond(n, nPoints)
    /\ LET s1 == RngNext(rng)
           s2 == RngNext(s1)
       IN  /\ x' = Gaus(s1, offset, scale)
           /\ y' = Gaus(s2, offset, scale)
           /\ rng' = s2
           /\ eventID' = Incr(eventID)
           /\ data' = TreeFill(data, x', y', eventID)
    /\ n' = n + 1
    /\ UNCHANGED << calls, pc, steps, call, nPoints, offset, scale, sigTree,
                    bkgTree, outputFile, dataloader, numFolds, castMode,
                    methods, folds, iMethod, iFold, evaluated, results,
                    bdtg_result, batch, gui, retval >>
    /\ UNCHANGED << probe, simpleVars >>

\* One iteration of the loop of lines 89-98.
GenTreeLoop ==
    /\ call # None
    /\ LoopCond(n, nPoints)
    /\ LET s1 == RngNext(rng)
           s2 == RngNext(s1)
       IN  /\ x' = Gaus(s1, offset, scale)
           /\ y' = Gaus(s2, offset, scale)
           /\ rng' = s2
           /\ eventID' = Incr(eventID)
           /\ data' = TreeFill(data, x', y', eventID')
    /\ n' = n + 1
    /\ UNCHANGED << calls, pc, steps, call, nPoints, offset, scale, sigTree,
                    bkgTree, outputFile, dataloader, numFolds, castMode,
                    methods, folds, iMethod, iFold, evaluated, results,
                    bdtg_result, batch, gui, retval >>
    /\ UNCHANGED << probe, simpleVars >>

-----------------------------------------------------------------------------
(* TMVACrossEvaluation, lines 105-226 *)

\* The statements of the macro with Close moved before Evaluate.
MacroOrderCloseEarly ==
    << "genSig", "genBkg", "open", "dataloader", "construct", "book",
       "close", "evaluate", "getResults", "gui", "return" >>

\* The statements of the macro in the order of the source text.
MacroOrder ==
    << "genSig", "genBkg", "open", "dataloader", "construct", "book",
       "evaluate", "getResults", "close", "gui", "return" >>

\* The statement after `label`: control falls through, there is no branch
\* out of the sequence.
Goto(label) ==
    LET i == CHOOSE k \in 1..Len(MacroOrder) : MacroOrder[k] = label
    IN  IF i = Len(MacroOrder) THEN "done" ELSE MacroOrder[i + 1]

Done(label) ==
    /\ pc' = Goto(label)
    /\ steps' = Append(steps, label)

\* ResetBranchAddresses and return, lines 100-102; the caller stores the
\* pointer in sigTree or bkgTree (lines 119, 120).
GenTreeReturn ==
    /\ call # None
    /\ ~LoopCond(n, nPoints)
    /\ IF call = "sig"
          THEN sigTree' = data /\ UNCHANGED bkgTree
          ELSE bkgTree' = data /\ UNCHANGED sigTree
    /\ call' = None
    /\ Done(pc)
    /\ nPoints' = 0 /\ offset' = 0 /\ scale' = 0 /\ rng' = 0
    /\ x' = 0 /\ y' = 0 /\ eventID' = 0 /\ n' = 0 /\ data' = << >>
    /\ UNCHANGED << calls, outputFile, dataloader, numFolds, castMode, methods,
                    folds, iMethod, iFold, evaluated, results, bdtg_result,
                    batch, gui, retval >>
    /\ UNCHANGED << probe, simpleVars >>

\* TFile::Open(outfileName, "RECREATE"), line 124
OpenOutputFile ==
    /\ pc = "open"
    /\ outputFile' = [outputFile EXCEPT !.state = "open", !.name = "TMVA.root"]
    /\ Done("open")
    /\ UNCHANGED << calls, call, nPoints, offset, scale, rng, x, y, eventID, n,
                    data, sigTree, bkgTree, dataloader, numFolds, castMode,
                    methods, folds, iMethod, iFold, evaluated, results,
                    bdtg_result, batch, gui, retval >>
    /\ UNCHANGED << probe, simpleVars >>

\* Lines 128-149: the variables, the spectator, the two trees (by pointer).
ConfigureDataLoader ==
    /\ pc = "dataloader"
    /\ dataloader' = [name |-> "dataset",
                      variables |-> << "x", "y" >>,
                      spectators |-> << "eventID" >>,
                      signal |-> "sigTree",
                      background |-> "bkgTree"]
    /\ Done("dataloader")
    /\ UNCHANGED << calls, call, nPoints, offset, scale, rng, x, y, eventID, n,
                    data, sigTree, bkgTree, outputFile, numFolds, castMode,
                    methods, folds, iMethod, iFold, evaluated, results,
                    bdtg_result, batch, gui, retval >>
    /\ UNCHANGED << probe, simpleVars >>

NumFoldsThree == 2 + 1

\* UInt_t numFolds = 2, line 163
NumFolds == 2

\* Lines 163-175.  The split expression is compiled here, which fixes what
\* the build makes of an out-of-range cast.
Construct(nf) ==
    /\ pc = "construct"
    /\ numFolds' = nf
    /\ \E m \in CastModes : castMode' = m
    /\ Done("construct")
    /\ UNCHANGED << calls, call, nPoints, offset, scale, rng, x, y, eventID, n,
                    data, sigTree, bkgTree, outputFile, dataloader, methods,
                    folds, iMethod, iFold, evaluated, results, bdtg_result,
                    batch, gui, retval >>
    /\ UNCHANGED << probe, simpleVars >>

ConstructCrossValidation == Construct(NumFolds)

\* ce.BookMethod(TMVA::Types::kBDT, "BDTG", ...), lines 182-184
BookMethod ==
    /\ pc = "book"
    /\ methods' = Append(methods, "BDTG")
    /\ Done("book")
    /\ UNCHANGED << calls, call, nPoints, offset, scale, rng, x, y, eventID, n,
                    data, sigTree, bkgTree, outputFile, dataloader, numFolds,
                    castMode, folds, iMethod, iFold, evaluated, results,
                    bdtg_result, batch, gui, retval >>
    /\ UNCHANGED << probe, simpleVars >>

-----------------------------------------------------------------------------
(* The split expression, line 165, and ce.Evaluate(), line 193 *)

\* "int(fabs([x]))%int([NumFolds])": the split taken on a data variable.
SplitExprOnData(ev, nf, mode) ==
    CRem(IntCast(Fabs(ev.x), mode), IntCast(nf, mode))

\* "int(fabs([eventID]))": the split without the final remainder.
SplitExprNoRem(ev, nf, mode) == IntCast(Fabs(ev.eventID), mode)

\* "int(fabs([eventID]))%int([NumFolds])" on an event: the expression has
\* access to the spectators and variables of the event and to NumFolds.
SplitExpr(ev, nf, mode) ==
    CRem(IntCast(Fabs(ev.eventID), mode), IntCast(nf, mode))

\* The events of the dataset: the entries of the two trees the dataloader
\* points to.
AllEvents ==
    {<< "sig", i >> : i \in 1..Len(sigTree)} \cup
    {<< "bkg", i >> : i \in 1..Len(bkgTree)}

Entry(e) == IF e[1] = "sig" THEN sigTree[e[2]] ELSE bkgTree[e[2]]

\* A write into the output file: it lands only while the file is open.
Write(f) ==
    IF f.state = "open"
    THEN [f EXCEPT !.writes = @ + 1]
    ELSE [f EXCEPT !.lateWrites = @ + 1]

\* "For each event the split expression is evaluated to a number and the
\* event is put in the fold corresponding to that number."
EvaluateSplit ==
    /\ pc = "evaluate"
    /\ iMethod = 0
    /\ folds' = [f \in 0..(numFolds - 1) |->
                    {e \in AllEvents :
                        SplitExpr(Entry(e), numFolds, castMode) = f}]
    /\ iMethod' = 1
    /\ iFold' = 0
    /\ UNCHANGED << calls, pc, steps, call, nPoints, offset, scale, rng, x, y,
                    eventID, n, data, sigTree, bkgTree, outputFile, dataloader,
                    numFolds, castMode, methods, evaluated, results,
                    bdtg_result, batch, gui, retval >>
    /\ UNCHANGED << probe, simpleVars >>

\* One booked method trained on the other folds and evaluated on fold iFold.
EvaluateFold ==
    /\ pc = "evaluate"
    /\ iMethod \in 1..Len(methods)
    /\ iFold < numFolds
    /\ evaluated' = Append(evaluated, << iMethod, iFold >>)
    /\ outputFile' = Write(outputFile)
    /\ iFold' = iFold + 1
    /\ UNCHANGED << calls, pc, steps, call, nPoints, offset, scale, rng, x, y,
                    eventID, n, data, sigTree, bkgTree, dataloader, numFolds,
                    castMode, methods, folds, iMethod, results, bdtg_result,
                    batch, gui, retval >>
    /\ UNCHANGED << probe, simpleVars >>

\* The folds of one method aggregated into its result, written to the
\* output file.
EvaluateAggregate ==
    /\ pc = "evaluate"
    /\ iMethod \in 1..Len(methods)
    /\ iFold >= numFolds
    /\ results' = Append(results, [method |-> methods[iMethod],
                                   nFolds |-> iFold])
    /\ outputFile' = Write(outputFile)
    /\ iMethod' = iMethod + 1
    /\ iFold' = 0
    /\ UNCHANGED << calls, pc, steps, call, nPoints, offset, scale, rng, x, y,
                    eventID, n, data, sigTree, bkgTree, dataloader, numFolds,
                    castMode, methods, folds, evaluated, bdtg_result, batch,
                    gui, retval >>
    /\ UNCHANGED << probe, simpleVars >>

EvaluateReturn ==
    /\ pc = "evaluate"
    /\ iMethod > Len(methods)
    /\ Done("evaluate")
    /\ UNCHANGED << calls, call, nPoints, offset, scale, rng, x, y, eventID, n,
                    data, sigTree, bkgTree, outputFile, dataloader, numFolds,
                    castMode, methods, folds, iMethod, iFold, evaluated,
                    results, bdtg_result, batch, gui, retval >>
    /\ UNCHANGED << probe, simpleVars >>

\* auto bdtg_result = ce.GetResults()[0], line 201
GetResults ==
    /\ pc = "getResults"
    /\ bdtg_result' = (IF Len(results) >= 1 THEN results[1] ELSE "undefined")
    /\ Done("getResults")
    /\ UNCHANGED << calls, call, nPoints, offset, scale, rng, x, y, eventID, n,
                    data, sigTree, bkgTree, outputFile, dataloader, numFolds,
                    castMode, methods, folds, iMethod, iFold, evaluated,
                    results, batch, gui, retval >>
    /\ UNCHANGED << probe, simpleVars >>

\* outputFile->Close(), line 211
CloseOutputFile ==
    /\ pc = "close"
    /\ outputFile' = [outputFile EXCEPT !.state = "closed", !.closes = @ + 1]
    /\ Done("close")
    /\ UNCHANGED << calls, call, nPoints, offset, scale, rng, x, y, eventID, n,
                    data, sigTree, bkgTree, dataloader, numFolds, castMode,
                    methods, folds, iMethod, iFold, evaluated, results,
                    bdtg_result, batch, gui, retval >>
    /\ UNCHANGED << probe, simpleVars >>

LaunchesGuiInBatch(isBatch) == isBatch

\* if (!gROOT->IsBatch()), line 221
LaunchesGui(isBatch) == ~isBatch

\* Lines 221-223.
LaunchGui ==
    /\ pc = "gui"
    /\ \E b \in BOOLEAN :
        /\ batch' = b
        /\ gui' = IF LaunchesGui(b) THEN gui + 1 ELSE gui
    /\ Done("gui")
    /\ UNCHANGED << calls, call, nPoints, offset, scale, rng, x, y, eventID, n,
                    data, sigTree, bkgTree, outputFile, dataloader, numFolds,
                    castMode, methods, folds, iMethod, iFold, evaluated,
                    results, bdtg_result, retval >>
    /\ UNCHANGED << probe, simpleVars >>

\* return 0, line 225
Return ==
    /\ pc = "return"
    /\ retval' = 0
    /\ Done("return")
    /\ UNCHANGED << calls, call, nPoints, offset, scale, rng, x, y, eventID, n,
                    data, sigTree, bkgTree, outputFile, dataloader, numFolds,
                    castMode, methods, folds, iMethod, iFold, evaluated,
                    results, bdtg_result, batch, gui >>
    /\ UNCHANGED << probe, simpleVars >>

-----------------------------------------------------------------------------
(* The split expression evaluated on one event identifier *)

ProbeEval ==
    /\ ~probe.evaluated
    /\ probe' = [probe EXCEPT
                    !.evaluated = TRUE,
                    !.fold = SplitExpr([x |-> 0, y |-> 0,
                                        eventID |-> probe.eventID],
                                       probe.numFolds, probe.mode)]
    /\ UNCHANGED << macroVars, simpleVars >>

-----------------------------------------------------------------------------
(* simple, simple.cxx lines 19-45 *)

\* TH2D hist({100, 0., 1.}, {{0., 1., 2., 3., 10.}}): coordinates times 100
TH2D == [xAxis |-> [nBins |-> 100, low |-> 0, high |-> 100],
         yAxis |-> [edges |-> << 0, 100, 200, 300, 1000 >>],
         entries |-> << >>]

\* Fill(coord) with the default weight 1
HistFill(h, coord, weight) ==
    [h EXCEPT !.entries = Append(@, [coord |-> coord, weight |-> weight])]

\* Lines 24-31.
CreateHistograms ==
    /\ simplePc = "create"
    /\ histFromVars' = TH2D
    /\ hist' = TH2D
    /\ simplePc' = "fill"
    /\ UNCHANGED << fitResult, file >>
    /\ UNCHANGED << macroVars, probe >>

\* The Fill applied to the histogram built from the axis variables.
FillHistFromVars ==
    /\ simplePc = "fill"
    /\ histFromVars' = HistFill(histFromVars, << 1, 102 >>, 1)
    /\ simplePc' = "fit"
    /\ UNCHANGED << hist, fitResult, file >>
    /\ UNCHANGED << macroVars, probe >>

\* hist.Fill({0.01, 1.02}), line 34
FillHist ==
    /\ simplePc = "fill"
    /\ hist' = HistFill(hist, << 1, 102 >>, 1)
    /\ simplePc' = "fit"
    /\ UNCHANGED << histFromVars, fitResult, file >>
    /\ UNCHANGED << macroVars, probe >>

\* FitTo(hist, func, {{0., 1.}}), lines 37-41: the histogram is read, the
\* fitted parameters are whatever the fit finds.
FitTo ==
    /\ simplePc = "fit"
    /\ \E p0 \in (-FitRange)..FitRange, p1 \in (-FitRange)..FitRange :
        fitResult' = [done |-> TRUE,
                      par |-> << p0, p1 >>,
                      start |-> << 0, 1 >>,
                      fitted |-> hist.entries]
    /\ simplePc' = "recreate"
    /\ UNCHANGED << hist, histFromVars, file >>
    /\ UNCHANGED << macroVars, probe >>

\* TFile::Recreate("hist.root"), line 43
Recreate ==
    /\ simplePc = "recreate"
    /\ file' = [name |-> "hist.root", keys |-> {}]
    /\ simplePc' = "write"
    /\ UNCHANGED << hist, histFromVars, fitResult >>
    /\ UNCHANGED << macroVars, probe >>

\* file->Write("TheHist", hist), line 44
WriteHist ==
    /\ simplePc = "write"
    /\ file' = [file EXCEPT !.keys =
                  @ \cup {[key |-> "TheHist", object |-> "hist", content |-> hist]}]
    /\ simplePc' = "done"
    /\ UNCHANGED << hist, histFromVars, fitResult >>
    /\ UNCHANGED << macroVars, probe >>

-----------------------------------------------------------------------------
(* Specifications *)

\* The values of nPoints genTree is run on: the boundaries of Int_t, the
\* values around zero, and the macro's.
NPointsSet ==
    {IntMin, -1, 0, 1, 2, 3, 4, 5, SigArgs.nPoints, IntMax}

\* The values of nPoints and of scale the second call is run on, besides
\* the macro's.
BkgNPointsSet == {0, 2, 7}

ScaleSet == {1, 2}

SigArgsSet == {[SigArgs EXCEPT !.nPoints = np] : np \in NPointsSet}

BkgArgsSet ==
    {[BkgArgs EXCEPT !.nPoints = np, !.scale = sc] :
        np \in BkgNPointsSet, sc \in ScaleSet} \cup {BkgArgs}

\* The calls of genTree with the literals generalised.
GenTreeEnterAny ==
    \E a \in (IF pc = "genSig" THEN SigArgsSet ELSE BkgArgsSet) :
        GenTreeCall(a)

\* The construction of ce with numFolds generalised.
ConstructAny == \E nf \in 1..MaxFolds : Construct(nf)

InitMacro(start) ==
    /\ calls = << >>
    /\ pc = start
    /\ steps = << >>
    /\ call = None
    /\ nPoints = 0 /\ offset = 0 /\ scale = 0 /\ rng = 0
    /\ x = 0 /\ y = 0 /\ eventID = 0 /\ n = 0 /\ data = << >>
    /\ sigTree = << >>
    /\ bkgTree = << >>
    /\ outputFile = [state |-> None, name |-> None, writes |-> 0,
                     closes |-> 0, lateWrites |-> 0]
    /\ dataloader = None
    /\ numFolds = 0
    /\ castMode = None
    /\ methods = << >>
    /\ folds = << >>
    /\ iMethod = 0
    /\ iFold = 0
    /\ evaluated = << >>
    /\ results = << >>
    /\ bdtg_result = None
    /\ batch = None
    /\ gui = 0
    /\ retval = None

IdleMacro == InitMacro("idle")

IdleProbe ==
    probe = [eventID |-> 0, numFolds |-> 1, mode |-> None,
             evaluated |-> TRUE, fold |-> 0]

\* simple's objects before their construction.
NoHist == [xAxis |-> None, yAxis |-> None, entries |-> << >>]

NoFit == [done |-> FALSE, par |-> << >>, start |-> << >>, fitted |-> << >>]

NoFile == [name |-> None, keys |-> {}]

IdleSimple ==
    /\ simplePc = "idle"
    /\ hist = NoHist
    /\ histFromVars = NoHist
    /\ fitResult = NoFit
    /\ file = NoFile

\* The macro as written.
Init == InitMacro(MacroOrder[1]) /\ IdleProbe /\ IdleSimple

Next ==
    \/ GenTreeEnter
    \/ GenTreeLoop
    \/ GenTreeReturn
    \/ OpenOutputFile
    \/ ConfigureDataLoader
    \/ ConstructCrossValidation
    \/ BookMethod
    \/ EvaluateSplit
    \/ EvaluateFold
    \/ EvaluateAggregate
    \/ EvaluateReturn
    \/ GetResults
    \/ CloseOutputFile
    \/ LaunchGui
    \/ Return

Spec == Init /\ [][Next]_vars

\* The macro on trees of any size: the arguments of genTree generalised.
NextTrees ==
    \/ GenTreeEnterAny
    \/ GenTreeLoop
    \/ GenTreeReturn
    \/ OpenOutputFile
    \/ ConfigureDataLoader
    \/ ConstructCrossValidation
    \/ BookMethod
    \/ EvaluateSplit
    \/ EvaluateFold
    \/ EvaluateAggregate
    \/ EvaluateReturn
    \/ GetResults
    \/ CloseOutputFile
    \/ LaunchGui
    \/ Return

SpecTrees == Init /\ [][NextTrees]_vars

\* The macro with the arguments of genTree and numFolds generalised.
NextGen ==
    \/ GenTreeEnterAny
    \/ GenTreeLoop
    \/ GenTreeReturn
    \/ OpenOutputFile
    \/ ConfigureDataLoader
    \/ ConstructAny
    \/ BookMethod
    \/ EvaluateSplit
    \/ EvaluateFold
    \/ EvaluateAggregate
    \/ EvaluateReturn
    \/ GetResults
    \/ CloseOutputFile
    \/ LaunchGui
    \/ Return

SpecGen == Init /\ [][NextGen]_vars

\* The split expression on every event identifier an Int_t can hold.
InitSplit ==
    /\ \E id \in IntMin..IntMax, nf \in 1..MaxFolds, m \in CastModes :
        probe = [eventID |-> id, numFolds |-> nf, mode |-> m,
                 evaluated |-> FALSE, fold |-> 0]
    /\ IdleMacro
    /\ IdleSimple

NextSplit == ProbeEval

SpecSplit == InitSplit /\ [][NextSplit]_vars

InitSimple ==
    /\ simplePc = "create"
    /\ hist = NoHist
    /\ histFromVars = NoHist
    /\ fitResult = NoFit
    /\ file = NoFile
    /\ IdleMacro
    /\ IdleProbe

NextSimple ==
    \/ CreateHistograms
    \/ FillHist
    \/ FitTo
    \/ Recreate
    \/ WriteHist

SpecSimple == InitSimple /\ [][NextSimple]_vars

-----------------------------------------------------------------------------
(* Helpers of the properties *)

Range(q) == {q[i] : i \in 1..Len(q)}

Max(a, b) == IF a >= b THEN a ELSE b

Min(a, b) == IF a <= b THEN a ELSE b

\* Evaluate has split the dataset into folds and is about to train on them
\* (folds is assigned by EvaluateSplit and by no later step).
SplitDone == pc = "evaluate" /\ iMethod = 1 /\ iFold = 0

\* The folds an event has been put in.
FoldsOf(e) == {f \in DOMAIN folds : e \in folds[f]}

\* The event identifiers of a set of events.
IDs(S) == {Entry(e).eventID : e \in S}

\* The events that are in no fold.
Unassigned == AllEvents \ UNION {folds[f] : f \in DOMAIN folds}

-----------------------------------------------------------------------------
(* C2 (as claimed): for every eventID an Int_t holds and every numFolds >= 1
   the split expression evaluates to |eventID| mod numFolds, a fold index in
   0 .. numFolds-1. *)
C2_AbsModNumFolds ==
    probe.evaluated =>
        /\ probe.fold = Fabs(probe.eventID) % probe.numFolds
        /\ probe.fold \in 0..(probe.numFolds - 1)

(* The same for every eventID but the least Int_t, whose absolute value no
   int holds. *)
C2_AbsModNumFoldsAboveIntMin ==
    (probe.evaluated /\ probe.eventID > IntMin) =>
        /\ probe.fold = Fabs(probe.eventID) % probe.numFolds
        /\ probe.fold \in 0..(probe.numFolds - 1)

\* A negative eventID above the least Int_t evaluated to its fold.
C2_NegativeEvaluated ==
    probe.evaluated /\ probe.eventID < 0 /\ probe.eventID > IntMin
    /\ probe.numFolds = 3 /\ probe.fold = 2

-----------------------------------------------------------------------------
(* C1: the fold of an event depends on its eventID and on numFolds alone: no
   event identifier occurs in two different folds (nor in a fold and outside
   of every fold), although the two trees are generated from different
   offsets, scales and seeds and the data x, y of events with the same
   eventID differ. *)
C1_FoldDependsOnEventIDOnly ==
    SplitDone =>
        LET ids == [f \in DOMAIN folds |-> IDs(folds[f])]
            out == IDs(Unassigned)
        IN  /\ \A f \in DOMAIN folds : ids[f] \cap out = {}
            /\ \A f \in DOMAIN folds : \A g \in DOMAIN folds :
                    f # g => ids[f] \cap ids[g] = {}

\* A signal and a background event with the same eventID and different data
\* have been put in the same fold.
C1_SameIDDifferentData ==
    /\ SplitDone
    /\ numFolds >= 2
    /\ \E i \in 1..Min(Len(sigTree), Len(bkgTree)) :
        /\ sigTree[i].eventID = bkgTree[i].eventID
        /\ sigTree[i].x # bkgTree[i].x
        /\ sigTree[i].y # bkgTree[i].y
        /\ FoldsOf(<< "sig", i >>) = FoldsOf(<< "bkg", i >>)
        /\ FoldsOf(<< "sig", i >>) # {}

(* C3: once the split expression has been evaluated for every event of the
   two trees, each event is in exactly one fold, the one whose index is the
   value of the expression; the folds are pairwise disjoint and their union
   is the dataset. *)
C3_FoldsPartitionDataset ==
    SplitDone =>
        /\ DOMAIN folds = 0..(numFolds - 1)
        /\ UNION {folds[f] : f \in DOMAIN folds} = AllEvents
        /\ \A f \in DOMAIN folds : \A g \in DOMAIN folds :
            f # g => folds[f] \cap folds[g] = {}
        /\ \A e \in AllEvents :
            /\ Cardinality(FoldsOf(e)) = 1
            /\ LET v == SplitExpr(Entry(e), numFolds, castMode)
               IN  v \in DOMAIN folds /\ e \in folds[v]

\* A dataset split into three folds, none of them empty.
C3_ThreeFoldsFilled ==
    /\ SplitDone
    /\ numFolds = 3
    /\ \A f \in DOMAIN folds : folds[f] # {}
    /\ Cardinality(AllEvents) >= 6

-----------------------------------------------------------------------------
\* eventID is k in the k-th entry of tree t, which has max(np, 0) entries.
TreeOK(t, np) ==
    /\ Len(t) = Max(np, 0)
    /\ \A k \in 1..Len(t) : t[k].eventID = k

(* C7: genTree(nPoints, offset, scale, seed) terminates (the loop has run n
   <= max(nPoints, 0) times and one of its two steps can be taken) and
   returns a tree of max(nPoints, 0) entries whose k-th entry has eventID k,
   whatever offset, scale and seed are: the entries of the two trees agree
   on eventID. *)
C7_GenTreeEventIDs ==
    /\ call # None =>
        /\ Len(data) = n
        /\ n <= Max(nPoints, 0)
        /\ \A k \in 1..Len(data) : data[k].eventID = k
        /\ (ENABLED GenTreeLoop) \/ (ENABLED GenTreeReturn)
    /\ (pc = "genBkg" /\ call = None) => TreeOK(sigTree, calls[1].nPoints)
    /\ pc = "open" =>
        /\ TreeOK(bkgTree, calls[2].nPoints)
        /\ \A k \in 1..Min(Len(sigTree), Len(bkgTree)) :
            sigTree[k].eventID = bkgTree[k].eventID

\* Both calls have returned, from different offsets, scales and seeds.
C7_BothTreesReturned ==
    /\ pc = "open"
    /\ Len(sigTree) = 5
    /\ Len(bkgTree) = 7
    /\ calls[1].offset # calls[2].offset
    /\ calls[1].scale # calls[2].scale
    /\ calls[1].seed # calls[2].seed

(* C10: the UInt_t counter eventID never exceeds the largest Int_t, so it
   never wraps; every eventID stored through the branch "eventID/I" is
   strictly positive and equal to the counter; the fold of a generated event
   is eventID % numFolds. *)
C10_CounterFitsInt ==
    /\ eventID <= IntMax
    /\ (call # None /\ Len(data) > 0) =>
        /\ data[Len(data)].eventID = eventID
        /\ \A k \in 1..Len(data) : data[k].eventID > 0
    /\ SplitDone =>
        \A e \in AllEvents :
            /\ Entry(e).eventID > 0
            /\ e \in folds[Entry(e).eventID % numFolds]

\* The counter has reached the largest Int_t and has been stored.
C10_CounterAtIntMax ==
    /\ call # None
    /\ nPoints = IntMax
    /\ eventID = IntMax
    /\ Len(data) = IntMax
    /\ data[Len(data)].eventID = IntMax

\* The number of events of tree c in fold f.
SizeIn(c, f) == Cardinality({e \in folds[f] : e[1] = c})

TreeIDs(t) == {t[k].eventID : k \in 1..Len(t)}

(* C9: the sizes of two folds of one tree differ by at most one, and no fold
   is empty of a tree with at least numFolds events; in the macro's
   configuration (two trees of 1000 events, numFolds = 2) every eventID
   occurs once as signal and once as background, and each of the two folds
   holds 500 signal and 500 background events. *)
C9_FoldSizes ==
    SplitDone =>
        LET size == [c \in {"sig", "bkg"}, f \in DOMAIN folds |-> SizeIn(c, f)]
            len == [c \in {"sig", "bkg"} |->
                        IF c = "sig" THEN Len(sigTree) ELSE Len(bkgTree)]
        IN  /\ \A c \in {"sig", "bkg"} :
                /\ \A f \in DOMAIN folds : \A g \in DOMAIN folds :
                        size[c, f] - size[c, g] <= 1
                /\ len[c] >= numFolds =>
                        \A f \in DOMAIN folds : size[c, f] >= 1
            /\ (calls = << SigArgs, BkgArgs >> /\ numFolds = NumFolds) =>
                /\ numFolds = 2
                /\ Len(sigTree) = 1000
                /\ Len(bkgTree) = 1000
                /\ Cardinality(TreeIDs(sigTree)) = 1000
                /\ Cardinality(TreeIDs(bkgTree)) = 1000
                /\ TreeIDs(sigTree) = TreeIDs(bkgTree)
                /\ \A f \in DOMAIN folds :
                        size["sig", f] = 500 /\ size["bkg", f] = 500

\* The macro's configuration split into its two folds.
C9_MacroSplit ==
    /\ SplitDone
    /\ calls = << SigArgs, BkgArgs >>
    /\ numFolds = 2
    /\ Cardinality(folds[0]) = 1000
    /\ Cardinality(folds[1]) = 1000

-----------------------------------------------------------------------------
\* How often method m has been trained and evaluated on fold f.
Count(m, f) ==
    Cardinality({j \in 1..Len(evaluated) : evaluated[j] = << m, f >>})

(* C4: Evaluate trains and evaluates every booked method exactly once on
   each fold (numFolds times per method, 2 times for BDTG); a method's result
   is aggregated only after all its folds; afterwards GetResults() holds one
   result per booked method, the first being BDTG's. *)
C4_EvaluateOncePerFold ==
    /\ \A j \in 1..Len(evaluated) : \A k \in 1..Len(evaluated) :
            j # k => evaluated[j] # evaluated[k]
    /\ Len(results) <= Len(methods)
    /\ \A i \in 1..Len(results) :
        /\ results[i].method = methods[i]
        /\ \A f \in 0..(numFolds - 1) : Count(i, f) = 1
    /\ "evaluate" \in Range(steps) =>
        /\ Len(results) = Len(methods)
        /\ methods = << "BDTG" >>
        /\ Len(evaluated) = 2
        /\ \A m \in 1..Len(methods) :
            Cardinality({j \in 1..Len(evaluated) : evaluated[j][1] = m})
                = numFolds
    /\ "getResults" \in Range(steps) =>
        /\ bdtg_result = results[1]
        /\ bdtg_result.method = "BDTG"

\* The result of BDTG has been read after its two folds.
C4_ResultRead ==
    /\ "getResults" \in Range(steps)
    /\ bdtg_result.method = "BDTG"
    /\ evaluated = << << 1, 0 >>, << 1, 1 >> >>
    /\ Len(results) = 1

C5_Order ==
    << "genSig", "genBkg", "open", "dataloader", "construct", "book",
       "evaluate", "getResults", "close" >>

\* The number of steps of the macro that can be taken.
EnabledSteps ==
    LET b(e) == IF e THEN 1 ELSE 0
    IN  b(ENABLED GenTreeEnterAny) + b(ENABLED GenTreeLoop)
        + b(ENABLED GenTreeReturn) + b(ENABLED OpenOutputFile)
        + b(ENABLED ConfigureDataLoader)
        + b(ENABLED ConstructAny) + b(ENABLED BookMethod)
        + b(ENABLED EvaluateSplit) + b(ENABLED EvaluateFold)
        + b(ENABLED EvaluateAggregate) + b(ENABLED EvaluateReturn)
        + b(ENABLED GetResults) + b(ENABLED CloseOutputFile)
        + b(ENABLED LaunchGui) + b(ENABLED Return)

(* C5: the macro is one sequence with exactly one step enabled at a time, in
   the order: the two trees, the output file opened, the dataloader, the
   CrossValidation object, BookMethod, Evaluate, GetResults, the file closed.
   The file is open during Evaluate and GetResults, it is closed exactly
   once, and nothing is written to it after it is closed. *)
C5_SequentialOrder ==
    /\ \A i \in 1..Min(Len(steps), Len(C5_Order)) : steps[i] = C5_Order[i]
    /\ pc # "done" => EnabledSteps = 1
    /\ pc = "done" => Len(steps) >= Len(C5_Order)
    /\ pc \in {"evaluate", "getResults"} => outputFile.state = "open"
    /\ outputFile.closes = (IF "close" \in Range(steps) THEN 1 ELSE 0)
    /\ outputFile.lateWrites = 0

\* The macro has run to its end: the file was written to and closed.
C5_RunComplete ==
    /\ pc = "done"
    /\ outputFile.state = "closed"
    /\ outputFile.closes = 1
    /\ numFolds = 2
    /\ outputFile.writes = 3

(* C6: the GUI is launched at most once, if and only if the session is not
   in batch mode, and only after the output file has been closed; in both
   modes the macro runs on to its return (it stops nowhere earlier) and
   returns 0. *)
C6_GuiAtEnd ==
    /\ gui <= 1
    /\ gui > 0 => outputFile.state = "closed"
    /\ "gui" \in Range(steps) => (gui = 1 <=> ~batch)
    /\ "gui" \notin Range(steps) => gui = 0
    /\ pc = "done" => ("gui" \in Range(steps) /\ retval = 0)
    /\ pc = "done" \/ ENABLED NextGen

\* A session not in batch mode has launched the GUI and returned 0.
C6_GuiLaunched ==
    /\ pc = "done"
    /\ batch = FALSE
    /\ gui = 1
    /\ retval = 0
    /\ outputFile.state = "closed"

-----------------------------------------------------------------------------
\* The one Fill of simple: weight 1 at (0.01, 1.02).
OneFill == << [coord |-> << 1, 102 >>, weight |-> 1] >>

TotalWeight(h) ==
    LET RECURSIVE sum(_)
        sum(k) == IF k = 0 THEN 0 ELSE h.entries[k].weight + sum(k - 1)
    IN  sum(Len(h.entries))

(* C8: hist receives exactly one Fill, of weight 1 at (0.01, 1.02), before
   it is fitted; the fit happens before hist.root is recreated and hist is
   written under the key "TheHist"; what is written holds exactly one entry
   of total weight 1; histFromVars is never filled and never written. *)
C8_FillFitWrite ==
    /\ Len(hist.entries) <= 1
    /\ histFromVars.entries = << >>
    /\ fitResult.done => (fitResult.fitted = OneFill /\ hist.entries = OneFill)
    /\ file.name # None => (fitResult.done /\ file.name = "hist.root")
    /\ \A k \in file.keys :
        /\ k.key = "TheHist"
        /\ k.object = "hist"
        /\ k.content.entries = OneFill
        /\ TotalWeight(k.content) = 1
    /\ simplePc = "done" => Cardinality(file.keys) = 1

\* hist has been written.
C8_HistWritten ==
    /\ simplePc = "done"
    /\ fitResult.done
    /\ \E k \in file.keys : k.key = "TheHist" /\ k.content = hist

====
